---- MODULE Spec2Model ----
(***************************************************************************)
(* Authentication flow of the admin backend: provisioning of admin         *)
(* records (seed-admin bootstrap -> AdminService.create), POST /auth/login *)
(* behind the global ValidationPipe, and the JwtAuthGuard-protected        *)
(* GET /auth/profile and GET /auth/checkAuthStatus.                        *)
(*                                                                         *)
(* bcrypt, jsonwebtoken/passport-jwt, express and class-validator are      *)
(* libraries; they are modelled symbolically, as the options the source    *)
(* passes to them make them behave.  Text the source writes in Chinese is  *)
(* given in English in the strings below.                                  *)
(***************************************************************************)
EXTENDS Integers, Sequences, FiniteSets, TLC

VARIABLES
    admins,   \* the admins collection (AdminSchema documents)
    now,      \* the server clock, in whole seconds (Math.floor(Date.now() / 1000))
    issued,   \* log of the tokens signed by AuthService.login, oldest first
    articles, \* the articles collection (ArticlesSchema documents)
    inflight, \* the runs and requests that are between two awaits, by process
    resp      \* the request handled last in the current second, with its response

vars == <<admins, now, issued, articles, inflight, resp>>

----------------------------------------------------------------------------
(* Bounds of the model *)

MaxTime == 2          \* the clock runs over 0..MaxTime
MaxIssued == 2        \* at most this many tokens are signed in one behaviour
MaxArticles == 1      \* at most this many articles are stored in one behaviour
JWT_EXPIRATION == 1   \* configured token lifetime in seconds (env JWT_EXPIRATION)

(* Input values *)

Absent == "<absent>"              \* a field / cookie / header that is not there
NotAString == "<not-a-string>"    \* a JSON value that is not a string
Usernames == {"alice", "carol"}   \* values INIT_ADMIN_USERNAME takes
UnknownUsername == "mallory"      \* never provisioned
InitPasswords == {"Secret123", "wrongpass"}   \* values INIT_ADMIN_PASSWORD takes
\* the (INIT_ADMIN_USERNAME, INIT_ADMIN_PASSWORD) settings the routine is run with
SeedConfigs == {<<"alice", "Secret123">>, <<"alice", "wrongpass">>, <<"carol", "wrongpass">>}
LoginPasswords == InitPasswords
Salts == {"saltA"}  \* salts bcrypt.genSalt may draw
JWT_SECRET == "server-secret"
OtherSecret == "attacker-secret"

Null == [null |-> TRUE]

----------------------------------------------------------------------------
(* bcrypt *)

SaltRounds == 10

BcryptHash(plain, rounds, salt) ==
    [alg |-> "bcrypt", cost |-> rounds, salt |-> salt, digest |-> <<rounds, salt, plain>>]

BcryptCompare(plain, hash) ==
    BcryptHash(plain, hash.cost, hash.salt) = hash

----------------------------------------------------------------------------
(* The admins collection *)

\* ObjectId.toJSON(): the 24-digit hex string of the n-th identifier
ObjectIdHex(oid) == <<"hex", oid.n>>

\* the identifiers handed out so far that a record or a token log entry holds
UsedIds == {a._id.n : a \in admins} \cup {issued[i].admin._id.n : i \in DOMAIN issued}

\* new ObjectId(): an identifier no record has or had
NewObjectId ==
    [n |-> IF UsedIds = {} THEN 1
           ELSE 1 + (CHOOSE m \in UsedIds : \A k \in UsedIds : k <= m)]

\* findOne that falls back to some record when none has the username
findOne_anyRecord(username) ==
    IF \E a \in admins : a.username = username
    THEN CHOOSE a \in admins : a.username = username
    ELSE IF admins # {} THEN CHOOSE a \in admins : TRUE
    ELSE Null

findOne(username) ==
    IF \E a \in admins : a.username = username
    THEN CHOOSE a \in admins : a.username = username
    ELSE Null

\* create that writes over the record already holding the username
create_upsert(dto, salt, dbFault) ==
    LET hashedPassword == BcryptHash(dto.password, SaltRounds, salt)
        admin == [_id |-> NewObjectId, username |-> dto.username,
                  password |-> hashedPassword]
    IN  IF dbFault
        THEN [status |-> 500, admin |-> Null, store |-> admins]
        ELSE IF \E a \in admins : a.username = dto.username
        THEN [status |-> 409, admin |-> Null,
              store |-> {a \in admins : a.username # dto.username} \cup {admin}]
        ELSE [status |-> 201, admin |-> admin, store |-> admins \cup {admin}]

\* create that saves the submitted password as it came
create_plaintext(dto, salt, dbFault) ==
    LET admin == [_id |-> NewObjectId, username |-> dto.username,
                  password |-> [alg |-> "plain", cost |-> 0, salt |-> "",
                                digest |-> <<0, "", dto.password>>]]
    IN  IF dbFault
        THEN [status |-> 500, admin |-> Null, store |-> admins]
        ELSE IF \E a \in admins : a.username = dto.username
        THEN [status |-> 409, admin |-> Null, store |-> admins]
        ELSE [status |-> 201, admin |-> admin, store |-> admins \cup {admin}]

\* create on a collection without the unique index on username
create_noUniqueIndex(dto, salt, dbFault) ==
    LET hashedPassword == BcryptHash(dto.password, SaltRounds, salt)
        admin == [_id |-> NewObjectId, username |-> dto.username,
                  password |-> hashedPassword]
    IN  IF dbFault
        THEN [status |-> 500, admin |-> Null, store |-> admins]
        ELSE [status |-> 201, admin |-> admin, store |-> admins \cup {admin}]

\* AdminService.create: the outcome and the collection afterwards.
\* save() rejects: with a persistence failure other than a duplicate key
\* (dbFault) -> InternalServerErrorException, with the unique index's error
\* 11000 -> ConflictException; nothing is written in either case.
create(dto, salt, dbFault) ==
    LET hashedPassword == BcryptHash(dto.password, SaltRounds, salt)
        admin == [_id |-> NewObjectId, username |-> dto.username,
                  password |-> hashedPassword]
    IN  IF dbFault
        THEN [status |-> 500, admin |-> Null, store |-> admins]
        ELSE IF \E a \in admins : a.username = dto.username
        THEN [status |-> 409, admin |-> Null, store |-> admins]
        ELSE [status |-> 201, admin |-> admin, store |-> admins \cup {admin}]

----------------------------------------------------------------------------
(* JSON Web Tokens: JwtModule.registerAsync (sign) and JwtStrategy (verify) *)

\* sign with the noTimestamp option and a fixed exp: no issue time in the token
JwtSign_noTimestamp(payload, secret, t) ==
    LET claims == [username |-> payload.username, sub |-> ObjectIdHex(payload.sub),
                   iat |-> 0, exp |-> JWT_EXPIRATION]
    IN  [kind |-> "jwt", claims |-> claims, sig |-> [key |-> secret, over |-> claims]]

\* jwtService.sign(payload): the payload is serialised as JSON (an ObjectId
\* becomes its hex string), stamped with iat and exp = iat + expiresIn, and
\* signed (HS256, deterministic) with the configured secret.
JwtSign(payload, secret, t) ==
    LET claims == [username |-> payload.username, sub |-> ObjectIdHex(payload.sub),
                   iat |-> t, exp |-> t + JWT_EXPIRATION]
    IN  [kind |-> "jwt", claims |-> claims, sig |-> [key |-> secret, over |-> claims]]

\* verification that still accepts a token in the second of its exp stamp
JwtVerify_graceSecond(token, secret, t) ==
    IF token.kind # "jwt"
    THEN [ok |-> FALSE, error |-> "jwt malformed"]
    ELSE IF token.sig # [key |-> secret, over |-> token.claims]
    THEN [ok |-> FALSE, error |-> "invalid signature"]
    ELSE IF t > token.claims.exp
    THEN [ok |-> FALSE, error |-> "jwt expired"]
    ELSE [ok |-> TRUE, payload |-> token.claims]

\* verification that decodes the token without checking its signature
JwtVerify_noSignature(token, secret, t) ==
    IF token.kind # "jwt"
    THEN [ok |-> FALSE, error |-> "jwt malformed"]
    ELSE IF t >= token.claims.exp
    THEN [ok |-> FALSE, error |-> "jwt expired"]
    ELSE [ok |-> TRUE, payload |-> token.claims]

\* Verification with ignoreExpiration: false and secretOrKey: JWT_SECRET.
JwtVerify(token, secret, t) ==
    IF token.kind # "jwt"
    THEN [ok |-> FALSE, error |-> "jwt malformed"]
    ELSE IF token.sig # [key |-> secret, over |-> token.claims]
    THEN [ok |-> FALSE, error |-> "invalid signature"]
    ELSE IF t >= token.claims.exp
    THEN [ok |-> FALSE, error |-> "jwt expired"]
    ELSE [ok |-> TRUE, payload |-> token.claims]

NoToken == [kind |-> "none"]            \* null: no token extracted
Undefined == [kind |-> "undefined"]     \* a cookie or header the request does not carry
MalformedToken == [kind |-> "malformed"]
\* a well-formed token for an admin identity, signed with a key that is not the server's
ForgedToken ==
    LET claims == [username |-> "alice", sub |-> ObjectIdHex([n |-> 1]),
                   iat |-> 0, exp |-> MaxTime + JWT_EXPIRATION + 1]
    IN  [kind |-> "jwt", claims |-> claims, sig |-> [key |-> OtherSecret, over |-> claims]]

\* validateAdmin that returns the record found without comparing the password
AuthService_validateAdmin_noCompare(username, pass) ==
    LET admin == findOne(username)
    IN  IF admin # Null
        THEN [_id |-> admin._id, username |-> admin.username]
        ELSE Null

\* AuthService.validateAdmin: the record without its password field, or null
AuthService_validateAdmin(username, pass) ==
    LET admin == findOne(username)
    IN  IF admin # Null /\ BcryptCompare(pass, admin.password)
        THEN [_id |-> admin._id, username |-> admin.username]
        ELSE Null

\* login that signs the identifier the store would assign next, not the record's
AuthService_login_nextId(admin) ==
    LET payload == [username |-> admin.username, sub |-> NewObjectId]
    IN  [access_token |-> JwtSign(payload, JWT_SECRET, now)]

\* AuthService.login
AuthService_login(admin) ==
    LET payload == [username |-> admin.username, sub |-> admin._id]
    IN  [access_token |-> JwtSign(payload, JWT_SECRET, now)]

\* an extractor that reads the Authorization header and not the cookie
jwtFromRequest_headerOnly(req) ==
    IF req.headers.authorization # Undefined THEN req.headers.authorization ELSE NoToken

\* JwtStrategy: the extractor list given to ExtractJwt.fromExtractors
\* (one extractor: req.cookies.access_token || null)
jwtFromRequest(req) ==
    IF req.cookies.access_token # Undefined THEN req.cookies.access_token ELSE NoToken

\* validate that hands the whole verified payload on ({...payload, adminId})
JwtStrategy_validate_wholePayload(payload) ==
    [adminId |-> payload.sub, username |-> payload.username, sub |-> payload.sub,
     iat |-> payload.iat, exp |-> payload.exp]

\* JwtStrategy.validate
JwtStrategy_validate(payload) ==
    [adminId |-> payload.sub, username |-> payload.username]

\* a guard with a server-side session: only the token signed last is accepted
JwtAuthGuard_latestOnly(req) ==
    LET token == jwtFromRequest(req)
        verified == IF token = NoToken THEN [ok |-> FALSE, error |-> "No auth token"]
                    ELSE JwtVerify(token, JWT_SECRET, now)
    IN  IF verified.ok /\ issued # <<>> /\ token = issued[Len(issued)].token
        THEN [pass |-> TRUE, user |-> JwtStrategy_validate(verified.payload)]
        ELSE [pass |-> FALSE, user |-> Null]

\* a guard that looks the token's subject up and refuses one without a record
JwtAuthGuard_recordMustExist(req) ==
    LET token == jwtFromRequest(req)
        verified == IF token = NoToken THEN [ok |-> FALSE, error |-> "No auth token"]
                    ELSE JwtVerify(token, JWT_SECRET, now)
    IN  IF verified.ok /\ \E a \in admins : /\ ObjectIdHex(a._id) = verified.payload.sub
                                            /\ a.username = verified.payload.username
        THEN [pass |-> TRUE, user |-> JwtStrategy_validate(verified.payload)]
        ELSE [pass |-> FALSE, user |-> Null]

\* JwtAuthGuard = AuthGuard('jwt'): extract, verify, validate; req.user or 401
JwtAuthGuard(req) ==
    LET token == jwtFromRequest(req)
        verified == IF token = NoToken THEN [ok |-> FALSE, error |-> "No auth token"]
                    ELSE JwtVerify(token, JWT_SECRET, now)
    IN  IF verified.ok
        THEN [pass |-> TRUE, user |-> JwtStrategy_validate(verified.payload)]
        ELSE [pass |-> FALSE, user |-> Null]

----------------------------------------------------------------------------
(* Request pipeline and responses *)

IsString(v) == v \notin {Absent, NotAString}

\* the pipe with whitelist only: an undeclared property is dropped, not refused
ValidationPipe_stripUnknown(body) ==
    (IF IsString(body.username) THEN {} ELSE {"username must be a string"})
    \cup (IF IsString(body.password) THEN {} ELSE {"password must be a string"})

\* Global ValidationPipe {whitelist, forbidNonWhitelisted, transform} applied to
\* LoginAdminDto, which declares username and password only.
ValidationPipe(body) ==
    (IF IsString(body.username) THEN {} ELSE {"username must be a string"})
    \cup (IF IsString(body.password) THEN {} ELSE {"password must be a string"})
    \cup (IF body.rememberMe = Absent THEN {}
          ELSE {"property rememberMe should not exist"})

NoCookie == [name |-> "<none>"]

\* express res.cookie(name, value, options): maxAge is given in milliseconds and
\* is sent as Max-Age in seconds; an undefined maxAge sends no Max-Age.
NoMaxAge == -1
ResCookie(name, value, options) ==
    [name |-> name, value |-> value, httpOnly |-> options.httpOnly,
     secure |-> options.secure,
     sameSite |-> Absent,
     maxAgeSec |-> IF options.maxAge = NoMaxAge THEN NoMaxAge
                   ELSE options.maxAge \div 1000]

\* AuthController.login, the cookie options
cookieObj(rememberMe) ==
    [httpOnly |-> TRUE, secure |-> FALSE,
     maxAge |-> IF rememberMe = "true" THEN 1 * 24 * 60 * 60 * 1000 ELSE NoMaxAge]

\* the handler without the password check
loginHandler_noCompare(dto) ==
    LET admin == findOne(dto.username)
    IN  IF admin = Null
        THEN [status |-> 401,
              body |-> [message |-> "admin does not exist", error |-> "Unauthorized"],
              cookie |-> NoCookie, steps |-> <<"findOne">>, admin |-> Null]
        ELSE [status |-> 200,
              body |-> [message |-> "login ok", code |-> 200],
              cookie |-> ResCookie("access_token",
                                   AuthService_login(admin).access_token,
                                   cookieObj(dto.rememberMe)),
              steps |-> <<"findOne", "sign">>, admin |-> admin]

\* the handler that also returns what AuthService.login returned in the body
loginHandler_tokenInBody(dto) ==
    LET admin == findOne(dto.username)
    IN  IF admin = Null
        THEN [status |-> 401,
              body |-> [message |-> "admin does not exist", error |-> "Unauthorized"],
              cookie |-> NoCookie, steps |-> <<"findOne">>, admin |-> Null]
        ELSE IF ~BcryptCompare(dto.password, admin.password)
        THEN [status |-> 401,
              body |-> [message |-> "wrong password", error |-> "Unauthorized"],
              cookie |-> NoCookie, steps |-> <<"findOne", "compare">>, admin |-> Null]
        ELSE [status |-> 200,
              body |-> [message |-> "login ok", code |-> 200,
                        access_token |-> AuthService_login(admin).access_token],
              cookie |-> ResCookie("access_token",
                                   AuthService_login(admin).access_token,
                                   cookieObj(dto.rememberMe)),
              steps |-> <<"findOne", "compare", "sign">>, admin |-> admin]

\* AuthController.login, the handler body: what it answers for a DTO that
\* passed the pipeline
loginHandler(dto) ==
    LET admin == findOne(dto.username)
    IN  IF admin = Null
        THEN [status |-> 401,
              body |-> [message |-> "admin does not exist", error |-> "Unauthorized"],
              cookie |-> NoCookie, steps |-> <<"findOne">>, admin |-> Null]
        ELSE IF ~BcryptCompare(dto.password, admin.password)
        THEN [status |-> 401,
              body |-> [message |-> "wrong password", error |-> "Unauthorized"],
              cookie |-> NoCookie, steps |-> <<"findOne", "compare">>, admin |-> Null]
        ELSE [status |-> 200,
              body |-> [message |-> "login ok", code |-> 200],
              cookie |-> ResCookie("access_token",
                                   AuthService_login(admin).access_token,
                                   cookieObj(dto.rememberMe)),
              steps |-> <<"findOne", "compare", "sign">>, admin |-> admin]

----------------------------------------------------------------------------
(* Operations *)

Init ==
    /\ admins = {}
    /\ now = 0
    /\ issued = <<>>
    /\ articles = {}
    /\ inflight = <<>>
    /\ resp = [op |-> "none"]

\* a seed run that sets the configured password on the record it finds
SeedAdmin_resetPassword(username, plainPassword, salt, dbFault) ==
    LET existingAdmin == findOne(username)
        made == create([username |-> username, password |-> plainPassword], salt, dbFault)
        reset == [existingAdmin EXCEPT
                     !.password = BcryptHash(plainPassword, SaltRounds, salt)]
        outcome == IF username = Absent \/ plainPassword = Absent THEN "unset"
                   ELSE IF existingAdmin # Null THEN "skipped"
                   ELSE IF made.status = 201 THEN "created"
                   ELSE "failed"
    IN  /\ admins' = IF outcome = "created" THEN made.store
                     ELSE IF outcome = "skipped"
                     THEN (admins \ {existingAdmin}) \cup {reset}
                     ELSE admins
        /\ resp' = [op |-> "seed",
                    req |-> [username |-> username, password |-> plainPassword],
                    outcome |-> outcome]
        /\ UNCHANGED <<now, issued, articles, inflight>>

\* a seed run that hashes the configured password itself and hands the hash
\* string to create as the password
SeedAdmin_hashFirst(username, plainPassword, salt, dbFault) ==
    LET existingAdmin == findOne(username)
        hashedPassword == IF plainPassword = "Secret123" THEN "$2b$10$saltA/Secret123"
                          ELSE "$2b$10$saltA/other"
        made == create([username |-> username, password |-> hashedPassword], salt, dbFault)
        outcome == IF username = Absent \/ plainPassword = Absent THEN "unset"
                   ELSE IF existingAdmin # Null THEN "skipped"
                   ELSE IF made.status = 201 THEN "created"
                   ELSE "failed"
    IN  /\ admins' = IF outcome = "created" THEN made.store ELSE admins
        /\ resp' = [op |-> "seed",
                    req |-> [username |-> username, password |-> plainPassword],
                    outcome |-> outcome]
        /\ UNCHANGED <<now, issued, articles, inflight>>

\* scripts/seed-admin.ts bootstrap(): the provisioning routine, run with
\* INIT_ADMIN_USERNAME = username and INIT_ADMIN_PASSWORD = plainPassword
SeedAdmin(username, plainPassword, salt, dbFault) ==
    LET existingAdmin == findOne(username)
        made == create([username |-> username, password |-> plainPassword], salt, dbFault)
        outcome == IF username = Absent \/ plainPassword = Absent THEN "unset"
                   ELSE IF existingAdmin # Null THEN "skipped"
                   ELSE IF made.status = 201 THEN "created"
                   ELSE "failed"
    IN  /\ admins' = IF outcome = "created" THEN made.store ELSE admins
        /\ resp' = [op |-> "seed",
                    req |-> [username |-> username, password |-> plainPassword],
                    outcome |-> outcome]
        /\ UNCHANGED <<now, issued, articles, inflight>>

\* AdminService.create called with a CreateAdminDto
AdminCreate(dto, salt, dbFault) ==
    LET made == create(dto, salt, dbFault)
    IN  /\ admins' = made.store
        /\ resp' = [op |-> "create", req |-> dto, fault |-> dbFault,
                    status |-> made.status]
        /\ UNCHANGED <<now, issued, articles, inflight>>

\* a login that registers the username it does not find
Login_register(body) ==
    LET errors == ValidationPipe(body)
        out == loginHandler(body)
    IN  IF errors # {}
        THEN /\ resp' = [op |-> "login", req |-> body, status |-> 400,
                         body |-> [message |-> "Bad Request", errors |-> errors],
                         cookie |-> NoCookie, steps |-> <<>>]
             /\ UNCHANGED <<admins, now, issued, articles, inflight>>
        ELSE /\ out.status = 200 => Len(issued) < MaxIssued
             /\ resp' = [op |-> "login", req |-> body, status |-> out.status,
                         body |-> out.body, cookie |-> out.cookie, steps |-> out.steps]
             /\ issued' = IF out.status = 200
                          THEN Append(issued, [token |-> out.cookie.value,
                                               admin |-> out.admin, at |-> now])
                          ELSE issued
             /\ admins' = IF findOne(body.username) = Null
                          THEN create([username |-> body.username,
                                       password |-> body.password],
                                      CHOOSE x \in Salts : TRUE, FALSE).store
                          ELSE admins
             /\ UNCHANGED <<now, articles, inflight>>

\* POST /auth/login: ValidationPipe, then AuthController.login
Login(body) ==
    LET errors == ValidationPipe(body)
        out == loginHandler(body)
    IN  IF errors # {}
        THEN /\ resp' = [op |-> "login", req |-> body, status |-> 400,
                         body |-> [message |-> "Bad Request", errors |-> errors],
                         cookie |-> NoCookie, steps |-> <<>>]
             /\ UNCHANGED <<admins, now, issued, articles, inflight>>
        ELSE /\ out.status = 200 => Len(issued) < MaxIssued
             /\ resp' = [op |-> "login", req |-> body, status |-> out.status,
                         body |-> out.body, cookie |-> out.cookie, steps |-> out.steps]
             /\ issued' = IF out.status = 200
                          THEN Append(issued, [token |-> out.cookie.value,
                                               admin |-> out.admin, at |-> now])
                          ELSE issued
             /\ UNCHANGED <<admins, now, articles, inflight>>

\* GET /auth/profile: JwtAuthGuard, then AuthController.getProfile
getProfile(req) ==
    LET guard == JwtAuthGuard(req)
    IN  /\ resp' = [op |-> "profile", req |-> req,
                    status |-> IF guard.pass THEN 200 ELSE 401,
                    body |-> IF guard.pass THEN guard.user
                             ELSE [message |-> "Unauthorized", statusCode |-> 401]]
        /\ UNCHANGED <<admins, now, issued, articles, inflight>>

\* GET /auth/checkAuthStatus: JwtAuthGuard, then AuthController.checkAuth
checkAuth(req) ==
    LET guard == JwtAuthGuard(req)
    IN  /\ resp' = [op |-> "checkAuthStatus", req |-> req,
                    status |-> IF guard.pass THEN 200 ELSE 401,
                    body |-> IF guard.pass THEN [isAuthenticated |-> TRUE]
                             ELSE [message |-> "Unauthorized", statusCode |-> 401]]
        /\ UNCHANGED <<admins, now, issued, articles, inflight>>

\* the admins collection edited from outside the application (database
\* administration): a record is deleted
RemoveAdmin(a) ==
    /\ admins' = admins \ {a}
    /\ resp' = [op |-> "db.remove", req |-> [username |-> a.username]]
    /\ UNCHANGED <<now, issued, articles, inflight>>

\* ... or its username or password hash is replaced, within the unique index
UpdateAdmin(a, username, plainPassword, salt) ==
    LET changed == [a EXCEPT !.username = username,
                             !.password = BcryptHash(plainPassword, SaltRounds, salt)]
    IN  /\ changed # a
        /\ \A b \in admins \ {a} : b.username # username
        /\ admins' = (admins \ {a}) \cup {changed}
        /\ resp' = [op |-> "db.update", req |-> [username |-> a.username]]
        /\ UNCHANGED <<now, issued, articles, inflight>>

\* the pipe with @IsString() alone on title and content
CreateArticleErrors_noNotEmpty(body) ==
    (IF IsString(body.title) THEN {} ELSE {"title"})
    \cup (IF IsString(body.content) THEN {} ELSE {"content"})
    \cup (IF body.published = Absent THEN {} ELSE {"property published should not exist"})

\* ValidationPipe on CreateArticleDto: title and content IsString and
\* IsNotEmpty, nothing else declared
CreateArticleErrors(body) ==
    (IF IsString(body.title) /\ body.title # "" THEN {} ELSE {"title"})
    \cup (IF IsString(body.content) /\ body.content # "" THEN {} ELSE {"content"})
    \cup (IF body.published = Absent THEN {} ELSE {"property published should not exist"})

\* ValidationPipe on UpdateArticleDto = PartialType(CreateArticleDto): the
\* same validators, skipped for a property that is absent
UpdateArticleErrors(body) ==
    (IF body.title = Absent \/ (IsString(body.title) /\ body.title # "")
     THEN {} ELSE {"title"})
    \cup (IF body.content = Absent \/ (IsString(body.content) /\ body.content # "")
          THEN {} ELSE {"content"})
    \cup (IF body.published = Absent THEN {} ELSE {"property published should not exist"})

\* +id in the controller: the route parameter as a number. A parameter is
\* <<"dec", n>>, the decimal string of n, or <<"hex", n>>, the hex string of
\* the n-th ObjectId, which is no numeral.
ToNumber(id) == IF id[1] = "dec" THEN <<"number", id[2]>> ELSE <<"NaN", 0>>

\* POST /articles: ValidationPipe, then ArticlesService.create
ArticlesCreate(body) ==
    LET errors == CreateArticleErrors(body)
        createdBlog == [_id |-> [n |-> Cardinality(articles) + 1],
                        title |-> body.title, content |-> body.content,
                        published |-> FALSE, createdAt |-> now, updatedAt |-> now]
    IN  IF errors # {}
        THEN /\ resp' = [op |-> "articles.create", req |-> body, status |-> 400,
                         body |-> [message |-> "Bad Request", errors |-> errors]]
             /\ UNCHANGED <<admins, now, issued, articles, inflight>>
        ELSE /\ Cardinality(articles) < MaxArticles
             /\ articles' = articles \cup {createdBlog}
             /\ resp' = [op |-> "articles.create", req |-> body, status |-> 201,
                         body |-> createdBlog]
             /\ UNCHANGED <<admins, now, issued, inflight>>

\* GET /articles: ArticlesService.findAll
ArticlesFindAll ==
    /\ resp' = [op |-> "articles.findAll", status |-> 200,
                body |-> [text |-> <<"This action returns all articles">>]]
    /\ UNCHANGED <<admins, now, issued, articles, inflight>>

\* GET /articles/:id: ArticlesService.findOne
ArticlesFindOne(id) ==
    /\ resp' = [op |-> "articles.findOne", req |-> [id |-> id], status |-> 200,
                body |-> [text |-> <<"This action returns a #", ToNumber(id), " article">>]]
    /\ UNCHANGED <<admins, now, issued, articles, inflight>>

\* PATCH /articles/:id: ValidationPipe, then ArticlesService.update
ArticlesUpdate(id, body) ==
    LET errors == UpdateArticleErrors(body)
    IN  /\ resp' = IF errors # {}
                   THEN [op |-> "articles.update", req |-> [id |-> id, body |-> body],
                         status |-> 400,
                         body |-> [message |-> "Bad Request", errors |-> errors]]
                   ELSE [op |-> "articles.update", req |-> [id |-> id, body |-> body],
                         status |-> 200,
                         body |-> [text |-> <<"This action updates a #", ToNumber(id), " article">>]]
        /\ UNCHANGED <<admins, now, issued, articles, inflight>>

\* DELETE /articles/:id: ArticlesService.remove
ArticlesRemove(id) ==
    /\ resp' = [op |-> "articles.remove", req |-> [id |-> id], status |-> 200,
                body |-> [text |-> <<"This action removes a #", ToNumber(id), " article">>]]
    /\ UNCHANGED <<admins, now, issued, articles, inflight>>

\* the process p with its position and locals set to v
Put(p, v) == [q \in DOMAIN inflight \cup {p} |-> IF q = p THEN v ELSE inflight[q]]

At(p, kind, pc) ==
    p \in DOMAIN inflight /\ inflight[p].kind = kind /\ inflight[p].pc = pc

\* seed-admin bootstrap() up to its first await: the configuration is read
\* and findOne(username) is issued
BeginSeed(p, username, plainPassword) ==
    /\ p \notin DOMAIN inflight
    /\ inflight' = Put(p, [kind |-> "seed",
                           req |-> [username |-> username, password |-> plainPassword],
                           pc |-> IF username = Absent \/ plainPassword = Absent
                                  THEN "done" ELSE "find",
                           outcome |-> IF username = Absent \/ plainPassword = Absent
                                       THEN "unset" ELSE "pending",
                           status |-> 0, fault |-> FALSE])
    /\ UNCHANGED <<admins, now, issued, articles, resp>>

\* ... findOne resolves: the run skips, or calls adminService.create
SeedFound(p) ==
    /\ At(p, "seed", "find")
    /\ LET existingAdmin == findOne(inflight[p].req.username)
       IN  inflight' = Put(p, IF existingAdmin # Null
                              THEN [inflight[p] EXCEPT !.pc = "done", !.outcome = "skipped"]
                              ELSE [inflight[p] EXCEPT !.pc = "save"])
    /\ UNCHANGED <<admins, now, issued, articles, resp>>

\* AdminService.create is called with a CreateAdminDto: up to save()
BeginCreate(p, dto) ==
    /\ p \notin DOMAIN inflight
    /\ inflight' = Put(p, [kind |-> "create", req |-> dto, pc |-> "save",
                           outcome |-> "pending", status |-> 0, fault |-> FALSE])
    /\ UNCHANGED <<admins, now, issued, articles, resp>>

\* ... save() resolves or rejects (of a create called directly or by a seed
\* run): the insert is one atomic write under the unique index
Saved(p, salt, dbFault) ==
    /\ p \in DOMAIN inflight
    /\ inflight[p].pc = "save"
    /\ LET made == create(inflight[p].req, salt, dbFault)
       IN  /\ admins' = made.store
           /\ inflight' = Put(p, [inflight[p] EXCEPT
                                     !.pc = "done",
                                     !.outcome = IF made.status = 201 THEN "created"
                                                 ELSE "failed",
                                     !.status = made.status,
                                     !.fault = dbFault])
    /\ UNCHANGED <<now, issued, articles, resp>>

\* the logins that have not answered yet
PendingLogins == {q \in DOMAIN inflight : inflight[q].kind = "login" /\ inflight[q].pc # "done"}

\* POST /auth/login up to its first await: ValidationPipe, then findOne is
\* issued
BeginLogin(p, body) ==
    LET errors == ValidationPipe(body)
    IN  /\ p \notin DOMAIN inflight
        /\ Len(issued) + Cardinality(PendingLogins) < MaxIssued
        /\ inflight' = Put(p, IF errors # {}
                               THEN [kind |-> "login", req |-> body, pc |-> "done",
                                     admin |-> Null, status |-> 400,
                                     body |-> [message |-> "Bad Request", errors |-> errors],
                                     cookie |-> NoCookie, steps |-> <<>>]
                               ELSE [kind |-> "login", req |-> body, pc |-> "find",
                                     admin |-> Null, status |-> 0,
                                     body |-> [message |-> "pending"],
                                     cookie |-> NoCookie, steps |-> <<>>])
        /\ UNCHANGED <<admins, now, issued, articles, resp>>

\* ... findOne resolves: 401 for no record, or bcrypt.compare is started
LoginFound(p) ==
    /\ At(p, "login", "find")
    /\ LET admin == findOne(inflight[p].req.username)
       IN  inflight' = Put(p, IF admin = Null
                              THEN [inflight[p] EXCEPT
                                      !.pc = "done", !.status = 401,
                                      !.body = [message |-> "admin does not exist",
                                                error |-> "Unauthorized"],
                                      !.steps = <<"findOne">>]
                              ELSE [inflight[p] EXCEPT
                                      !.pc = "compare", !.admin = admin,
                                      !.steps = <<"findOne">>])
    /\ UNCHANGED <<admins, now, issued, articles, resp>>

\* a handler that keeps the record it found in a field of the controller,
\* which every invocation shares
AdminOf_sharedField(p) ==
    inflight[CHOOSE q \in DOMAIN inflight : At(q, "login", "compare")].admin

\* const admin: the record this invocation of the handler found
AdminOf(p) == inflight[p].admin

\* a handler that signs and logs the token before it looks at the result of
\* the comparison
LoginCompared_signFirst(p) ==
    /\ At(p, "login", "compare")
    /\ LET admin == AdminOf(p)
           dto == inflight[p].req
           isPasswordValid == BcryptCompare(dto.password, admin.password)
           access_token == AuthService_login(admin).access_token
       IN  /\ inflight' = Put(p, IF ~isPasswordValid
                                  THEN [inflight[p] EXCEPT
                                          !.pc = "done", !.status = 401,
                                          !.body = [message |-> "wrong password",
                                                    error |-> "Unauthorized"],
                                          !.steps = <<"findOne", "compare">>]
                                  ELSE [inflight[p] EXCEPT
                                          !.pc = "done", !.status = 200,
                                          !.body = [message |-> "login ok", code |-> 200],
                                          !.cookie = ResCookie("access_token", access_token,
                                                               cookieObj(dto.rememberMe)),
                                          !.steps = <<"findOne", "compare", "sign">>])
           /\ issued' = Append(issued, [token |-> access_token, admin |-> admin,
                                        at |-> now])
    /\ UNCHANGED <<admins, now, articles, resp>>

\* ... bcrypt.compare resolves: 401 for a mismatch, or the token is signed,
\* the cookie set and 200 answered
LoginCompared(p) ==
    /\ At(p, "login", "compare")
    /\ LET admin == AdminOf(p)
           dto == inflight[p].req
           isPasswordValid == BcryptCompare(dto.password, admin.password)
           access_token == AuthService_login(admin).access_token
       IN  /\ inflight' = Put(p, IF ~isPasswordValid
                                  THEN [inflight[p] EXCEPT
                                          !.pc = "done", !.status = 401,
                                          !.body = [message |-> "wrong password",
                                                    error |-> "Unauthorized"],
                                          !.steps = <<"findOne", "compare">>]
                                  ELSE [inflight[p] EXCEPT
                                          !.pc = "done", !.status = 200,
                                          !.body = [message |-> "login ok", code |-> 200],
                                          !.cookie = ResCookie("access_token", access_token,
                                                               cookieObj(dto.rememberMe)),
                                          !.steps = <<"findOne", "compare", "sign">>])
           /\ issued' = IF isPasswordValid
                        THEN Append(issued, [token |-> access_token, admin |-> admin,
                                             at |-> now])
                        ELSE issued
    /\ UNCHANGED <<admins, now, articles, resp>>

\* one second passes; the responses of the second before have been sent
Tick ==
    /\ now < MaxTime
    /\ now' = now + 1
    /\ resp' = [op |-> "none"]
    /\ UNCHANGED <<admins, issued, articles, inflight>>

(* Inputs *)

\* the well-typed bodies without rememberMe, the bodies with the credentials
\* of a configuration and a rememberMe, and the ill-typed ones
LoginBodies ==
    [username : Usernames \cup {UnknownUsername},
     password : LoginPasswords,
     rememberMe : {Absent}]
    \cup {[username |-> c[1], password |-> c[2], rememberMe |-> r] :
             c \in SeedConfigs, r \in {"false", "true"}}
    \cup {[username |-> Absent, password |-> "Secret123", rememberMe |-> Absent],
          [username |-> NotAString, password |-> "Secret123", rememberMe |-> Absent],
          [username |-> "alice", password |-> NotAString, rememberMe |-> Absent],
          [username |-> "alice", password |-> Absent, rememberMe |-> Absent]}

IssuedTokens == {issued[i].token : i \in DOMAIN issued}

Request(cookie, bearer) ==
    [cookies |-> [access_token |-> cookie], headers |-> [authorization |-> bearer]]

\* a token in the cookie only, in the Authorization header only, or a cookie
\* that does not verify together with a token in the header
Requests ==
    {Request(c, Undefined) : c \in IssuedTokens \cup {Undefined, ForgedToken, MalformedToken}}
    \cup {Request(c, b) : c \in {Undefined, MalformedToken}, b \in IssuedTokens}

Next ==
    \/ \E c \in SeedConfigs \cup {<<Absent, "Secret123">>}, s \in Salts, f \in BOOLEAN :
          SeedAdmin(c[1], c[2], s, f)
    \/ \E body \in LoginBodies : Login(body)
    \/ \E req \in Requests : getProfile(req)
    \/ \E req \in Requests : checkAuth(req)
    \/ Tick

CreateAdminDtos == [username : Usernames, password : InitPasswords]

\* the credential store under its two writers: the seed script and create
NextStore ==
    \/ \E c \in SeedConfigs \cup {<<Absent, "Secret123">>}, s \in Salts, f \in BOOLEAN :
          SeedAdmin(c[1], c[2], s, f)
    \/ \E dto \in CreateAdminDtos, s \in Salts, f \in BOOLEAN : AdminCreate(dto, s, f)

SpecStore == Init /\ [][NextStore]_vars

ArticleBodies ==
    {[title |-> "Hello", content |-> "Body", published |-> Absent],
     [title |-> "", content |-> "Body", published |-> Absent],
     [title |-> "Hello", content |-> Absent, published |-> Absent],
     [title |-> "Hello", content |-> "Body", published |-> "true"]}

ArticlePatches ==
    {[title |-> "Other", content |-> Absent, published |-> Absent],
     [title |-> "", content |-> Absent, published |-> Absent]}

\* the parameter "1" and the identifiers the collection hands out
ArticleIds == {<<"dec", 1>>} \cup {ObjectIdHex([n |-> k]) : k \in 1..MaxArticles}

NextArticles ==
    \/ \E body \in ArticleBodies : ArticlesCreate(body)
    \/ ArticlesFindAll
    \/ \E id \in ArticleIds : ArticlesFindOne(id)
    \/ \E id \in ArticleIds, body \in ArticlePatches : ArticlesUpdate(id, body)
    \/ \E id \in ArticleIds : ArticlesRemove(id)

Procs == {"p1", "p2", "p3"}

\* seed runs and creates, interleaved at their awaits
NextRace ==
    \/ \E p \in Procs, u \in Usernames \cup {Absent} : BeginSeed(p, u, "Secret123")
    \/ \E p \in Procs : SeedFound(p)
    \/ \E p \in Procs, u \in Usernames :
          BeginCreate(p, [username |-> u, password |-> "wrongpass"])
    \/ \E p \in Procs, s \in Salts, f \in BOOLEAN : Saved(p, s, f)

SpecRace == Init /\ [][NextRace]_vars

\* every route of the application, with the seed script run for one
\* configuration
SurfaceLoginBodies ==
    {[username |-> "alice", password |-> "Secret123", rememberMe |-> Absent],
     [username |-> "alice", password |-> "wrongpass", rememberMe |-> Absent],
     [username |-> UnknownUsername, password |-> "Secret123", rememberMe |-> Absent],
     [username |-> NotAString, password |-> "Secret123", rememberMe |-> Absent]}

SurfaceRequests == {Request(c, Undefined) : c \in IssuedTokens \cup {Undefined}}

NextSurface ==
    \/ \E s \in Salts, f \in BOOLEAN : SeedAdmin("alice", "Secret123", s, f)
    \/ \E body \in SurfaceLoginBodies : Login(body)
    \/ \E req \in SurfaceRequests : getProfile(req)
    \/ \E req \in SurfaceRequests : checkAuth(req)
    \/ NextArticles
    \/ Tick

SpecSurface == Init /\ [][NextSurface]_vars

LoginProcs == {"p1", "p2"}

ConcurrentLoginBodies ==
    {[username |-> "alice", password |-> "Secret123", rememberMe |-> Absent],
     [username |-> "carol", password |-> "wrongpass", rememberMe |-> Absent],
     [username |-> "alice", password |-> "wrongpass", rememberMe |-> Absent],
     [username |-> "alice", password |-> NotAString, rememberMe |-> Absent]}

\* logins interleaved at their awaits, with token validations, seed runs and
\* the clock
NextConcurrent ==
    \/ \E c \in {<<"alice", "Secret123">>, <<"carol", "wrongpass">>}, s \in Salts,
          f \in BOOLEAN : SeedAdmin(c[1], c[2], s, f)
    \/ \E p \in LoginProcs, body \in ConcurrentLoginBodies : BeginLogin(p, body)
    \/ \E p \in LoginProcs : LoginFound(p)
    \/ \E p \in LoginProcs : LoginCompared(p)
    \/ \E req \in SurfaceRequests : getProfile(req)
    \/ \E req \in SurfaceRequests : checkAuth(req)
    \/ Tick

SpecConcurrent == Init /\ [][NextConcurrent]_vars

\* the event loop runs every callback whose await has resolved
SpecConcurrentFair ==
    /\ SpecConcurrent
    /\ \A p \in LoginProcs : WF_vars(LoginFound(p)) /\ WF_vars(LoginCompared(p))

\* the application with the admins collection also edited from outside
NextRevoke ==
    \/ \E s \in Salts, f \in BOOLEAN : SeedAdmin("alice", "Secret123", s, f)
    \/ Login([username |-> "alice", password |-> "Secret123", rememberMe |-> Absent])
    \/ \E req \in SurfaceRequests : getProfile(req)
    \/ \E req \in SurfaceRequests : checkAuth(req)
    \/ \E a \in admins : RemoveAdmin(a)
    \/ \E a \in admins, p \in InitPasswords, s \in Salts :
          UpdateAdmin(a, a.username, p, s)
    \/ Tick

SpecRevoke == Init /\ [][NextRevoke]_vars

Spec == Init /\ [][Next]_vars

----------------------------------------------------------------------------
(* Vocabulary of the properties *)

\* the last request was a login whose body is a LoginAdminDto: two strings
\* and nothing else
DtoLogin == resp.op = "login" /\ ValidationPipe(resp.req) = {}

\* the admin record a login body names, by exact match on username
RecordOf(body) == {a \in admins : a.username = body.username}

\* the body's password is the one whose hash the record stores
Verifies(body, a) ==
    a.password = BcryptHash(body.password, a.password.cost, a.password.salt)

\* the identity a downstream handler is to see for an admin record
IdentityOf(a) == [adminId |-> ObjectIdHex(a._id), username |-> a.username]

\* the seconds at which a token signed at second t is within its expiry window
Window(t) == t .. (t + JWT_EXPIRATION - 1)

Protected == {"profile", "checkAuthStatus"}

\* the entries of the log whose token is tok
IssuedAs(tok) == {i \in DOMAIN issued : issued[i].token = tok}

----------------------------------------------------------------------------
(* C1: a login with a (username, password) pair that matches a stored admin
   record answers 200, and the token it sets, validated at any second of its
   expiry window, yields the identity whose username is the record's username
   and whose adminId is the record's store identifier (as the hex string the
   token carries). *)
C1_LoginTokenNamesRecord ==
    (DtoLogin /\ \E a \in RecordOf(resp.req) : Verifies(resp.req, a)) =>
        /\ resp.status = 200
        /\ resp.cookie # NoCookie
        /\ \A a \in RecordOf(resp.req) : \A t \in Window(resp.cookie.value.claims.iat) :
              LET verified == JwtVerify(resp.cookie.value, JWT_SECRET, t)
              IN  /\ verified.ok
                  /\ JwtStrategy_validate(verified.payload).username = a.username
                  /\ JwtStrategy_validate(verified.payload).adminId = ObjectIdHex(a._id)

C1_Witness ==
    /\ DtoLogin /\ resp.status = 200
    /\ resp.req.username = "carol" /\ resp.req.password = "wrongpass"
    /\ Cardinality(admins) = 2

(* C2: a login with an existing username and a password that does not verify
   against the stored hash is answered 401, issues no token and sets no
   cookie. *)
WrongPasswordLogin ==
    /\ resp.op = "login"
    /\ IsString(resp.req.password)
    /\ \E a \in RecordOf(resp.req) : ~Verifies(resp.req, a)

C2_WrongPasswordRejected ==
    [][WrongPasswordLogin' =>
          /\ DtoLogin' => (resp'.status = 401 /\ resp'.body.error = "Unauthorized")
          /\ resp'.status # 200
          /\ resp'.cookie = NoCookie
          /\ \A i \in 1..Len(resp'.steps) : resp'.steps[i] # "sign"
          /\ issued' = issued]_vars

C2_Witness ==
    /\ DtoLogin /\ WrongPasswordLogin
    /\ resp.status = 401 /\ resp.req.username = "alice" /\ resp.req.password = "wrongpass"

(* C3: a login with a username that is not in the credential store is
   answered 401 without a password being verified, a token issued or a
   cookie set. *)
UnknownUserLogin ==
    /\ resp.op = "login"
    /\ IsString(resp.req.username)
    /\ RecordOf(resp.req) = {}

C3_UnknownUserRejected ==
    [][UnknownUserLogin' =>
          /\ DtoLogin' => (resp'.status = 401 /\ resp'.body.error = "Unauthorized")
          /\ resp'.status # 200
          /\ resp'.cookie = NoCookie
          /\ \A i \in 1..Len(resp'.steps) : resp'.steps[i] \notin {"compare", "sign"}
          /\ issued' = issued]_vars

C3_Witness ==
    /\ DtoLogin /\ UnknownUserLogin /\ admins # {}
    /\ resp.status = 401 /\ resp.req.username = UnknownUsername

(* C4: round trip.  For every admin a token was signed for, validating the
   token at any second of its expiry window returns exactly
   {adminId, username} of that admin: the payload that was signed holds sub
   and username (with the iat and exp stamps) and no extra claim is declared
   at issuance. *)
C4_RoundTrip ==
    \A i \in DOMAIN issued :
        LET e == issued[i]
        IN  /\ \A t \in Window(e.at) :
                  LET verified == JwtVerify(e.token, JWT_SECRET, t)
                  IN  /\ verified.ok
                      /\ DOMAIN verified.payload = {"username", "sub", "iat", "exp"}
                      /\ JwtStrategy_validate(verified.payload) = IdentityOf(e.admin)
            /\ now \in Window(e.at) =>
                  JwtAuthGuard(Request(e.token, Undefined))
                      = [pass |-> TRUE, user |-> IdentityOf(e.admin)]

C4_Witness ==
    /\ Len(issued) = 2
    /\ issued[1].admin.username # issued[2].admin.username
    /\ now \in Window(issued[1].at)
    /\ now \in Window(issued[2].at)

(* C5 as stated: any two tokens issued for the same identity, at any two
   times including the same clock instant, are distinct token strings. *)
C5_Original_AlwaysDistinct ==
    \A i, j \in DOMAIN issued :
        (i # j /\ issued[i].admin = issued[j].admin) =>
            issued[i].token # issued[j].token

(* C5, amended: two tokens issued for the same identity are distinct token
   strings exactly when they were issued in different clock seconds (two
   logins of one admin within the same second yield the same string); each
   is valid until its own expiry, and a validation never changes the
   validation outcome of any issued token. *)
C5_DistinctAcrossSeconds ==
    /\ [](\A i, j \in DOMAIN issued :
            /\ (i # j /\ issued[i].admin = issued[j].admin) =>
                   (issued[i].token # issued[j].token <=> issued[i].at # issued[j].at)
            /\ \A t \in 0 .. (MaxTime + JWT_EXPIRATION) :
                   JwtVerify(issued[i].token, JWT_SECRET, t).ok
                       <=> t < issued[i].at + JWT_EXPIRATION)
    /\ [][(resp' # resp /\ resp'.op \in Protected) =>
            /\ issued' = issued
            /\ \A i \in DOMAIN issued :
                   JwtAuthGuard(Request(issued[i].token, Undefined))'
                       = JwtAuthGuard(Request(issued[i].token, Undefined))]_vars

C5_Witness ==
    /\ Len(issued) = 2
    /\ issued[1].admin = issued[2].admin
    /\ issued[1].at # issued[2].at
    /\ resp.op = "profile" /\ resp.status = 200
    /\ resp.req.cookies.access_token = issued[2].token
    /\ ~JwtAuthGuard(Request(issued[1].token, Undefined)).pass

(* C6: expiry boundary.  A token validated at a second equal to or later
   than its exp stamp is rejected with 401; validated at any second strictly
   before it, it is accepted. *)
C6_ExpiryBoundary ==
    /\ \A i \in DOMAIN issued :
          /\ issued[i].token.claims.exp = issued[i].at + JWT_EXPIRATION
          /\ \A t \in 0 .. (MaxTime + JWT_EXPIRATION) :
                JwtVerify(issued[i].token, JWT_SECRET, t).ok
                    <=> t < issued[i].token.claims.exp
    /\ (resp.op \in Protected /\ IssuedAs(resp.req.cookies.access_token) # {}) =>
          /\ resp.status = 200 <=> now < resp.req.cookies.access_token.claims.exp
          /\ resp.status = 401 <=> now >= resp.req.cookies.access_token.claims.exp

C6_Witness ==
    /\ resp.op = "profile"
    /\ IssuedAs(resp.req.cookies.access_token) # {}
    /\ now = resp.req.cookies.access_token.claims.exp
    /\ resp.status = 401

(* C7 as stated: a login with valid credentials and rememberMe false or
   absent answers 200 and sets the access_token cookie, HttpOnly, with no
   Max-Age. *)
ValidCredentials == \E a \in RecordOf(resp.req) : Verifies(resp.req, a)

C7_Claim_SessionCookie ==
    (resp.op = "login" /\ ValidCredentials /\ resp.req.rememberMe \in {Absent, "false"}) =>
        /\ resp.status = 200
        /\ resp.cookie # NoCookie
        /\ resp.cookie.name = "access_token"
        /\ resp.cookie.httpOnly
        /\ resp.cookie.maxAgeSec = NoMaxAge

(* C8 as stated: a login through the request pipeline with valid credentials
   and rememberMe = true answers 200 and sets the access_token cookie with
   Max-Age 86400 seconds. *)
C8_Claim_RememberMeCookie ==
    (resp.op = "login" /\ ValidCredentials /\ resp.req.rememberMe = "true") =>
        /\ resp.status = 200
        /\ resp.cookie # NoCookie
        /\ resp.cookie.name = "access_token"
        /\ resp.cookie.maxAgeSec = 86400

(* C9: GET /auth/profile with neither cookie nor Authorization header is
   answered 401; with a cookie holding an issued, unexpired token it is
   answered 200 with exactly {adminId, username} of the admin the token was
   issued for. *)
C9_Profile ==
    resp.op = "profile" =>
        /\ (resp.req.cookies.access_token = Undefined
              /\ resp.req.headers.authorization = Undefined) => resp.status = 401
        /\ \A i \in IssuedAs(resp.req.cookies.access_token) :
              now \in Window(issued[i].at) =>
                  /\ resp.status = 200
                  /\ resp.body = IdentityOf(issued[i].admin)

C9_Witness ==
    /\ resp.op = "profile" /\ resp.status = 200
    /\ Len(issued) = 2
    /\ resp.req.cookies.access_token = issued[2].token
    /\ resp.body.username = "carol"
    /\ issued[1].admin.username = "alice"

C9_Witness_NoToken ==
    /\ resp.op = "profile" /\ resp.status = 401
    /\ resp.req.cookies.access_token = Undefined
    /\ resp.req.headers.authorization = Undefined

(* C10 as stated: token extraction takes the access_token cookie first and
   then the Authorization: Bearer header; a protected request carrying a
   valid token only in the Bearer header is authenticated, and a request
   with neither has no token. *)
C10_Claim_BearerFallback ==
    resp.op \in Protected =>
        /\ (resp.req.cookies.access_token = Undefined
              /\ resp.req.headers.authorization = Undefined) => resp.status = 401
        /\ (resp.req.cookies.access_token = Undefined
              /\ \E i \in IssuedAs(resp.req.headers.authorization) :
                     now \in Window(issued[i].at)) => resp.status = 200

----------------------------------------------------------------------------
\* a token this server signed: a JWT whose signature is the server key's over
\* the claims it carries
ServerSigned(tok) ==
    tok.kind = "jwt" /\ tok.sig = [key |-> JWT_SECRET, over |-> tok.claims]

\* the token the strategy reads from a request (the access_token cookie) is
\* signed by this server and unexpired
GoodToken(req) ==
    /\ ServerSigned(req.cookies.access_token)
    /\ now < req.cookies.access_token.claims.exp

(* C11: the handlers of GET /auth/profile and GET /auth/checkAuthStatus run
   only for a request whose token was signed with this server's secret and
   is unexpired; a missing, malformed, expired or signature-invalid token is
   answered 401 and checkAuthStatus does not answer {isAuthenticated: true}
   for it. *)
C11_GuardedHandlers ==
    resp.op \in Protected =>
        /\ resp.status = 200 => GoodToken(resp.req)
        /\ ~GoodToken(resp.req) =>
              /\ resp.status = 401
              /\ resp.body = [message |-> "Unauthorized", statusCode |-> 401]

C11_Witness ==
    /\ resp.op = "checkAuthStatus"
    /\ resp.req.cookies.access_token = ForgedToken
    /\ resp.status = 401
    /\ \E i \in DOMAIN issued : issued[i].admin.username = ForgedToken.claims.username

----------------------------------------------------------------------------
(* C12: a create whose username is already in the store is refused with 409
   and leaves the store as it was; a create whose save fails for any other
   reason is refused with 500 and adds no record; a create answers 201 only
   when neither is the case. *)
C12_CreateRefusals ==
    [][resp'.op = "create" =>
          LET taken == \E a \in admins : a.username = resp'.req.username
          IN  /\ (taken /\ ~resp'.fault) => (resp'.status = 409 /\ admins' = admins)
              /\ resp'.fault => (resp'.status = 500 /\ admins' = admins)
              /\ resp'.status = 201 => (~taken /\ ~resp'.fault)]_vars

C12_Witness ==
    /\ resp.op = "create"
    /\ resp.status = 409
    /\ \E a \in admins : /\ a.username = resp.req.username
                         /\ \A s \in Salts :
                               a.password # BcryptHash(resp.req.password, SaltRounds, s)

WroteRecord ==
    \/ resp.op = "create" /\ resp.status = 201
    \/ resp.op = "seed" /\ resp.outcome = "created"

(* C13: every record in the store holds, in its password field, the bcrypt
   hash (cost 10, hashed once) of a plaintext password, and the record a create
   has just written holds the hash of the password that was submitted. *)
C13_StoresHash ==
    /\ \A a \in admins : \E p \in InitPasswords, s \in Salts :
          a.password = BcryptHash(p, SaltRounds, s)
    /\ WroteRecord =>
          \E a \in admins, s \in Salts :
             /\ a.username = resp.req.username
             /\ a.password = BcryptHash(resp.req.password, SaltRounds, s)

C13_Witness ==
    /\ resp.op = "create"
    /\ resp.status = 201
    /\ Cardinality(admins) = 2
----------------------------------------------------------------------------
(* C14 as stated: every cookie set by a successful login is named
   access_token, carries the signed token as its value, and has the HttpOnly
   and SameSite=Strict attributes, whatever rememberMe was. *)
C14_Claim_CookieAttributes ==
    (resp.op = "login" /\ resp.status = 200) =>
        /\ resp.cookie.name = "access_token"
        /\ resp.cookie.value = issued[Len(issued)].token
        /\ resp.cookie.httpOnly
        /\ resp.cookie.sameSite = "strict"

(* C15 as stated: a failed login with a username that is not in the store and
   a failed login with a stored username and a wrong password are answered
   with the same status and the same message. *)
C15_Claim_SameFailure ==
    [][(UnknownUserLogin /\ DtoLogin /\ WrongPasswordLogin' /\ DtoLogin') =>
          /\ resp'.status = resp.status
          /\ resp'.body.message = resp.body.message]_vars

(* C16: validation does not consult the credential store: a protected
   request whose cookie is a token this server issued, within the token's
   expiry window, is answered 200 (and the profile is the identity the token
   was issued for) whether or not the admin record still exists or still is
   what it was when the token was issued. *)
C16_StoreNotConsulted ==
    resp.op \in Protected =>
        \A i \in IssuedAs(resp.req.cookies.access_token) :
            now \in Window(issued[i].at) =>
                /\ resp.status = 200
                /\ resp.op = "profile" => resp.body = IdentityOf(issued[i].admin)

C16_Witness ==
    /\ resp.op = "profile"
    /\ resp.status = 200
    /\ \E i \in IssuedAs(resp.req.cookies.access_token) :
          /\ issued[i].admin \notin admins
          /\ \A a \in admins : a._id # issued[i].admin._id

(* C17: no operation invalidates a token: in every reachable state each token
   that was issued and is within its expiry window passes the guard, and a
   protected request that presented one was answered 200. *)
C17_NoInvalidation ==
    /\ \A i \in DOMAIN issued :
          now \in Window(issued[i].at) =>
              JwtAuthGuard(Request(issued[i].token, Undefined)).pass
    /\ resp.op \in Protected =>
          \A i \in IssuedAs(resp.req.cookies.access_token) :
              now \in Window(issued[i].at) => resp.status = 200

C17_Witness ==
    /\ Len(issued) = 2
    /\ issued[1].token # issued[2].token
    /\ now \in Window(issued[1].at)
    /\ resp.op = "checkAuthStatus"
    /\ resp.req.cookies.access_token = issued[1].token
    /\ resp.status = 200

(* C18 as stated: rememberMe changes only the Max-Age of the cookie: a login
   with valid credentials carrying rememberMe is answered as the same login
   without it is, and sets the access_token cookie; and a protected request that
   presents an issued token at or after its expiry is answered 401. *)
C18_Claim_IndependentLifetimes ==
    /\ (resp.op = "login" /\ resp.req.rememberMe # Absent /\ ValidCredentials) =>
          LET plain == loginHandler([resp.req EXCEPT !.rememberMe = Absent])
          IN  /\ resp.status = plain.status
              /\ plain.status = 200 =>
                    /\ resp.cookie # NoCookie
                    /\ resp.cookie.name = "access_token"
    /\ resp.op \in Protected =>
          \A i \in IssuedAs(resp.req.cookies.access_token) :
              now >= issued[i].at + JWT_EXPIRATION => resp.status = 401

HttpOps ==
    {"login", "profile", "checkAuthStatus", "articles.create", "articles.findAll",
     "articles.findOne", "articles.update", "articles.remove"}

(* C19: no route of the application changes the admins collection: a step
   that answers a request to login, profile, checkAuthStatus or an /articles
   route leaves the collection as it was, and a step that changes it is a
   run of the seed script that created a record. *)
C19_StoreFrame ==
    [][/\ resp'.op \in HttpOps => admins' = admins
       /\ admins' # admins => (resp'.op = "seed" /\ resp'.outcome = "created")]_vars

C19_Witness ==
    /\ resp.op = "articles.create"
    /\ resp.status = 201
    /\ admins # {}
    /\ issued # <<>>

(* C20: a login whose username or password is missing or not a string, or
   whose body has a property LoginAdminDto does not declare, is answered 400
   before any lookup: no handler step ran, no cookie is set and no token is
   issued. *)
IllFormedLogin ==
    /\ resp.op = "login"
    /\ \/ ~IsString(resp.req.username)
       \/ ~IsString(resp.req.password)
       \/ resp.req.rememberMe # Absent

C20_ValidationFirst ==
    [][IllFormedLogin' =>
          /\ resp'.status = 400
          /\ resp'.steps = <<>>
          /\ resp'.cookie = NoCookie
          /\ issued' = issued]_vars

C20_Witness ==
    /\ IllFormedLogin
    /\ resp.status = 400
    /\ resp.req.rememberMe = "true"
    /\ ValidCredentials
----------------------------------------------------------------------------
(* C21: the body of a successful login response has exactly the two
   properties message and code, with code = 200; the signed token is the
   value of the access_token cookie and is no property of the body. *)
C21_BodyWithoutToken ==
    (resp.op = "login" /\ resp.status = 200) =>
        /\ DOMAIN resp.body = {"message", "code"}
        /\ resp.body.code = 200
        /\ resp.body.message = "login ok"
        /\ resp.cookie.name = "access_token"
        /\ resp.cookie.value = issued[Len(issued)].token

C21_Witness ==
    /\ resp.op = "login"
    /\ resp.status = 200
    /\ resp.cookie.value.kind = "jwt"
----------------------------------------------------------------------------
\* the stored articles a route parameter names
Named(id) == {a \in articles : ObjectIdHex(a._id) = id}

(* C22 as stated: the article routes are CRUD over the stored collection:
   GET /articles returns the stored articles, GET /articles/:id returns the
   stored article with that id, PATCH /articles/:id sets the fields it is
   given on the stored article, DELETE /articles/:id removes it. *)
C22_Claim_ArticleCrud ==
    [][/\ resp'.op = "articles.findAll" =>
             /\ "docs" \in DOMAIN resp'.body
             /\ resp'.body.docs = articles
       /\ resp'.op = "articles.findOne" =>
             \A a \in Named(resp'.req.id) : resp'.body = a
       /\ (resp'.op = "articles.update" /\ resp'.status = 200) =>
             \A a \in Named(resp'.req.id) :
                 [a EXCEPT !.title = resp'.req.body.title] \in articles'
       /\ resp'.op = "articles.remove" =>
             \A a \in Named(resp'.req.id) : a \notin articles']_vars

WellFormedArticle(body) ==
    /\ IsString(body.title) /\ body.title # ""
    /\ IsString(body.content) /\ body.content # ""

(* C23: POST /articles adds an article only when title and content are
   non-empty strings, and the article added has the title and content of the
   request; a request with a missing or empty title or content is answered
   400 and the collection is unchanged; every stored article has
   published = FALSE. *)
C23_CreateArticle ==
    /\ [](\A a \in articles : a.published = FALSE /\ a.title # "" /\ a.content # "")
    /\ [][resp'.op = "articles.create" =>
            /\ ~WellFormedArticle(resp'.req) =>
                  (resp'.status = 400 /\ articles' = articles)
            /\ articles' # articles =>
                  /\ WellFormedArticle(resp'.req)
                  /\ resp'.status = 201
                  /\ \E a \in articles' \ articles :
                        /\ articles' = articles \cup {a}
                        /\ a.title = resp'.req.title
                        /\ a.content = resp'.req.content]_vars

C23_Witness ==
    /\ resp.op = "articles.create"
    /\ resp.status = 400
    /\ resp.req.title = ""
    /\ articles # {}
----------------------------------------------------------------------------
(* C24: the seed routine is idempotent: after a run that created or skipped,
   the store holds exactly one record with the configured username; a run
   that finds the username present is skipped and leaves the store, the
   record's password hash included, as it was. *)
C24_SeedIdempotent ==
    /\ []((resp.op = "seed" /\ resp.outcome \in {"created", "skipped"}) =>
            Cardinality(RecordOf(resp.req)) = 1)
    /\ [][(resp'.op = "seed" /\ RecordOf(resp'.req) # {}) =>
            (resp'.outcome = "skipped" /\ admins' = admins)]_vars

C24_Witness ==
    /\ resp.op = "seed"
    /\ resp.outcome = "skipped"
    /\ \E a \in RecordOf(resp.req) : ~Verifies(resp.req, a)

SeedLogin == [username |-> resp.req.username, password |-> resp.req.password,
              rememberMe |-> Absent]

(* C29: once a seed run has created the admin from INIT_ADMIN_USERNAME and
   INIT_ADMIN_PASSWORD, the stored hash is the hash of the configured
   plaintext, hashed once, and a login with that username and that plaintext
   is answered 200. *)
C29_SeedThenLogin ==
    /\ []((resp.op = "seed" /\ resp.outcome = "created") =>
            /\ \E a \in RecordOf(resp.req) : Verifies(resp.req, a)
            /\ loginHandler(SeedLogin).status = 200)
    /\ [][(resp.op = "seed" /\ resp.outcome = "created"
            /\ resp'.op = "login" /\ resp'.req = SeedLogin) =>
            resp'.status = 200]_vars

C29_Witness ==
    /\ resp.op = "login"
    /\ resp.status = 200
    /\ resp.req.password = "wrongpass"
    /\ resp.req.rememberMe = Absent
----------------------------------------------------------------------------
(* C28 as stated: the token issued at login carries the admin record's
   must-change-password flag as a claim, and the identity a validated token
   yields (the profile) carries the same flag. *)
C28_Claim_MustChangeClaim ==
    /\ (resp.op = "login" /\ resp.status = 200) =>
          /\ "mustChangePassword" \in DOMAIN resp.cookie.value.claims
          /\ \E a \in RecordOf(resp.req) :
                /\ "mustChangePassword" \in DOMAIN a
                /\ resp.cookie.value.claims.mustChangePassword = a.mustChangePassword
    /\ (resp.op = "profile" /\ resp.status = 200) =>
          /\ "mustChangePassword" \in DOMAIN resp.body
          /\ resp.body.mustChangePassword =
                resp.req.cookies.access_token.claims.mustChangePassword

CredentialPairs == (Usernames \cup {UnknownUsername}) \X LoginPasswords

InlineCheck(c) == loginHandler([username |-> c[1], password |-> c[2], rememberMe |-> Absent])

(* C30: in every store state and for every (username, password),
   AuthService.validateAdmin returns an admin exactly when the check in
   AuthController.login goes on to issue a token (200) and null exactly when
   the login is answered 401; the admin returned is the record login signs
   for, without its password field. *)
C30_ChecksAgree ==
    \A c \in CredentialPairs :
        LET validated == AuthService_validateAdmin(c[1], c[2])
        IN  /\ (validated # Null) <=> (InlineCheck(c).status = 200)
            /\ (validated = Null) <=> (InlineCheck(c).status = 401)
            /\ validated # Null =>
                  /\ DOMAIN validated = {"_id", "username"}
                  /\ validated._id = InlineCheck(c).admin._id
                  /\ validated.username = InlineCheck(c).admin.username

C30_Witness ==
    /\ \E c \in CredentialPairs : AuthService_validateAdmin(c[1], c[2]) # Null
    /\ \E c \in CredentialPairs :
          /\ RecordOf([username |-> c[1]]) # {}
          /\ AuthService_validateAdmin(c[1], c[2]) = Null
    /\ Cardinality(admins) = 2
----------------------------------------------------------------------------
\* the processes whose create has come back, for a username
Returned(u) ==
    {p \in DOMAIN inflight :
        inflight[p].pc = "done" /\ inflight[p].status # 0 /\ inflight[p].req.username = u}

(* C25: under every interleaving of creates and seed runs (find, then
   create) the store holds at most one record per username; at most one
   create for a username succeeds, and every other create for it whose save
   met no other persistence failure ends with Conflict (409). *)
C25_OneRecordPerUsername ==
    /\ \A a, b \in admins : a.username = b.username => a = b
    /\ \A u \in Usernames :
          /\ Cardinality({p \in Returned(u) : inflight[p].status = 201}) <= 1
          /\ \A p \in Returned(u) :
                (inflight[p].status # 201 /\ ~inflight[p].fault) =>
                    inflight[p].status = 409

C25_Witness ==
    \E p, q \in DOMAIN inflight :
        /\ inflight[p].kind = "seed" /\ inflight[q].kind = "seed"
        /\ inflight[p].req.username = inflight[q].req.username
        /\ inflight[p].status = 201
        /\ inflight[q].status = 409
----------------------------------------------------------------------------
\* what a login answered
Outcome(v) == [status |-> v.status, body |-> v.body, cookie |-> v.cookie, steps |-> v.steps]

\* what the login answers when it runs alone, start to end, in this state
Alone(body) == Outcome(loginHandler(body))

Logins == {p \in DOMAIN inflight : inflight[p].kind = "login"}

(* C26: logins and validations are independent: a login that completes,
   whatever else is in flight, answers what it would answer run alone against
   the store and the clock of that moment; a step of one login changes no
   other login; a pending login can always take its next step; and a
   validation answers 200 exactly for a server-signed unexpired token,
   whatever logins are in flight. *)
C26_Independent ==
    /\ [](\A p \in PendingLogins : ENABLED (LoginFound(p) \/ LoginCompared(p)))
    /\ [](resp.op \in Protected =>
            resp.status = IF GoodToken(resp.req) THEN 200 ELSE 401)
    /\ [][\A p \in PendingLogins :
            /\ inflight'[p].pc = "done" => Outcome(inflight'[p]) = Alone(inflight[p].req)
            /\ inflight'[p] # inflight[p] =>
                  \A q \in DOMAIN inflight \ {p} : inflight'[q] = inflight[q]]_vars

C26_Witness ==
    /\ DOMAIN inflight = LoginProcs
    /\ \A p \in LoginProcs : inflight[p].status = 200
    /\ inflight["p1"].admin # inflight["p2"].admin
    /\ resp.op = "profile"
    /\ resp.status = 200

(* C27 as stated: every login request that has ended ended Authenticated
   (200) or Rejected (401). *)
C27_Original_TwoOutcomes ==
    \A p \in Logins : inflight[p].pc = "done" => inflight[p].status \in {200, 401}

IllFormed(body) ==
    ~IsString(body.username) \/ ~IsString(body.password) \/ body.rememberMe # Absent

(* C27: every login request ends, in exactly one terminal outcome: refused by
   validation (400, nothing looked up, nothing issued) when ill-formed, and
   otherwise Authenticated (200, token issued and cookie set, after the lookup
   and the password verification both succeeded) or Rejected (401, no cookie,
   nothing issued). An ended login never changes again, and a token is issued
   only in the step that ends a login with 200. *)
C27_TerminalOutcome ==
    /\ [](\A p \in Logins : inflight[p].pc = "done" =>
            LET v == inflight[p]
            IN  \/ /\ v.status = 200
                   /\ ~IllFormed(v.req)
                   /\ v.steps = <<"findOne", "compare", "sign">>
                   /\ \E a \in RecordOf(v.req) : Verifies(v.req, a)
                   /\ v.cookie # NoCookie
                   /\ \E i \in DOMAIN issued : issued[i].token = v.cookie.value
                \/ /\ v.status = 401
                   /\ ~IllFormed(v.req)
                   /\ v.cookie = NoCookie
                \/ /\ v.status = 400
                   /\ IllFormed(v.req)
                   /\ v.steps = <<>>
                   /\ v.cookie = NoCookie)
    /\ [][/\ \A p \in Logins : inflight[p].pc = "done" => inflight'[p] = inflight[p]
          /\ issued' # issued =>
                \E p \in PendingLogins :
                    /\ inflight'[p].status = 200
                    /\ issued' = Append(issued, [token |-> inflight'[p].cookie.value,
                                                 admin |-> inflight'[p].admin,
                                                 at |-> now])]_vars
    /\ \A p \in LoginProcs : (p \in DOMAIN inflight) ~> (p \in DOMAIN inflight /\ inflight[p].pc = "done")

C27_Witness ==
    /\ DOMAIN inflight = LoginProcs
    /\ inflight["p1"].status = 401
    /\ inflight["p1"].steps = <<"findOne", "compare">>
    /\ inflight["p2"].status = 200
    /\ inflight["p2"].req.username = inflight["p1"].req.username
====
